---- MODULE Spec2Model ----
(***************************************************************************)
(* Model of backend/utils/image_processing.py (the enhancement pipeline of *)
(* the Photo Equalizer backend) and of the /process endpoint that calls it.*)
(*                                                                         *)
(* Representation                                                          *)
(*  - A raster image is one row of pixels, a sequence of <<b, g, r>>       *)
(*    triples with 8-bit channels (OpenCV's BGR order).  The empty         *)
(*    sequence stands for Python's None / "no image".                      *)
(*  - float32 arrays (img_float) are held in fixed point: the integer x    *)
(*    stands for x / Unit, Unit = 255 * 40, so that v / 255 and tenths are *)
(*    exact.  Rounding of float32 itself is not modelled.                  *)
(*  - brightness, contrast and saturation arguments are in tenths          *)
(*    (contrast 10 = 1.0), hue in whole degrees, exposure in whole stops.  *)
(*  - Metrics are in hundredths (floor).                                   *)
(*  - A Python string built from clauses is a sequence of tokens; the      *)
(*    bullet separator is a token of its own.                              *)
(***************************************************************************)
EXTENDS Integers, Sequences, FiniteSets, TLC

(* ---------------------------------------------------------------------- *)
(* Bounds of the model                                                     *)
(* ---------------------------------------------------------------------- *)

\* widest image (pixels in the row)
MaxPixels == 2

\* at most this many arguments of one call differ from their defaults
MaxChanged == 2

(* ---------------------------------------------------------------------- *)
(* Arithmetic helpers                                                      *)
(* ---------------------------------------------------------------------- *)

Abs(x) == IF x < 0 THEN -x ELSE x

Min(a, b) == IF a < b THEN a ELSE b

Max(a, b) == IF a > b THEN a ELSE b

RECURSIVE SumSeq(_)
SumSeq(s) == IF s = <<>> THEN 0 ELSE Head(s) + SumSeq(Tail(s))

RECURSIVE SqrtSearch(_, _, _)
\* largest r in lo..hi with r * r <= x
SqrtSearch(lo, hi, x) ==
    IF lo >= hi THEN lo
    ELSE LET mid == (lo + hi + 1) \div 2
         IN  IF mid * mid <= x THEN SqrtSearch(mid, hi, x)
                               ELSE SqrtSearch(lo, mid - 1, x)

ISqrt(x) == SqrtSearch(0, 46340, x)

\* round(a / b) for a >= 0, b > 0
RoundDiv(a, b) == (2 * a + b) \div (2 * b)

RECURSIVE Gcd(_, _)
Gcd(a, b) == IF b = 0 THEN a ELSE Gcd(b, a % b)

(* ---------------------------------------------------------------------- *)
(* Colour model (cv2.cvtColor on 8-bit images)                             *)
(* ---------------------------------------------------------------------- *)

\* cv2.COLOR_BGR2GRAY: fixed-point luma, 15 fractional bits
Gray(p) == (p[1] * 3735 + p[2] * 19235 + p[3] * 9798 + 16384) \div 32768

GrayImage(image) == [i \in 1..Len(image) |-> Gray(image[i])]

\* cv2.COLOR_BGR2HSV on 8 bits: h in 0..179, s and v in 0..255
BGR2HSV(p) ==
    LET b == p[1]
        g == p[2]
        r == p[3]
        v == Max(b, Max(g, r))
        vmin == Min(b, Min(g, r))
        diff == v - vmin
        sdiv == IF v = 0 THEN 0 ELSE RoundDiv(255 * 4096, v)
        hdiv == IF diff = 0 THEN 0 ELSE RoundDiv(180 * 4096, 6 * diff)
        s == (diff * sdiv + 2048) \div 4096
        h0 == IF v = r THEN g - b
              ELSE IF v = g THEN b - r + 2 * diff
              ELSE r - g + 4 * diff
        h1 == (h0 * hdiv + 2048) \div 4096
        h == IF h1 < 0 THEN h1 + 180 ELSE h1
    IN  <<h, s, v>>

\* cv2.COLOR_HSV2BGR on 8 bits
HSV2BGR(q) ==
    LET h == q[1]
        s == q[2]
        v == q[3]
        sector == (h \div 30) % 6
        hm == h % 30
        t0 == v
        t1 == RoundDiv(v * (255 - s), 255)
        t2 == RoundDiv(v * (7650 - s * hm), 7650)
        t3 == RoundDiv(v * (7650 - s * (30 - hm)), 7650)
        tab == <<t0, t1, t2, t3>>
        sector_data == << <<1, 3, 0>>, <<1, 0, 2>>, <<3, 0, 1>>,
                          <<0, 2, 1>>, <<0, 1, 3>>, <<2, 1, 0>> >>
        sd == sector_data[sector + 1]
    IN  IF s = 0 THEN <<v, v, v>>
        ELSE <<tab[sd[1] + 1], tab[sd[2] + 1], tab[sd[3] + 1]>>

(* ---------------------------------------------------------------------- *)
(* calculate_perceptual_metrics                                            *)
(* ---------------------------------------------------------------------- *)

\* cv2.Laplacian(gray, CV_64F): 3x3 aperture [0 1 0; 1 -4 1; 0 1 0] with
\* the reflect-101 border, on a one-row image
Laplacian(gray) ==
    LET n == Len(gray)
        left(x) == IF n = 1 THEN gray[1] ELSE IF x = 1 THEN gray[2] ELSE gray[x - 1]
        right(x) == IF n = 1 THEN gray[1] ELSE IF x = n THEN gray[n - 1] ELSE gray[x + 1]
    IN  [x \in 1..n |-> left(x) + right(x) + 2 * gray[x] - 4 * gray[x]]

\* numpy var (population variance) of a sequence, in hundredths
Var100(s) ==
    LET n == Len(s)
        sq == [i \in 1..n |-> s[i] * s[i]]
    IN  (100 * (n * SumSeq(sq) - SumSeq(s) * SumSeq(s))) \div (n * n)

\* numpy std, in hundredths
Std100(s) == ISqrt(Var100(s) * 100)

\* numpy mean, in hundredths
Mean100(s) == (100 * SumSeq(s)) \div Len(s)

\* np.std(hist) / np.mean(hist) of the 256-bin histogram, in hundredths
BrightnessBalance100(gray) ==
    LET n == Len(gray)
        sumsq == Cardinality({ij \in (1..n) \X (1..n) : gray[ij[1]] = gray[ij[2]]})
    IN  ISqrt((10000 * (256 * sumsq - n * n)) \div (n * n))

NoMetrics ==
    [sharpness |-> -1, brightness_balance |-> -1, contrast |-> -1, saturation |-> -1]

calculate_perceptual_metrics(image) ==
    LET gray == GrayImage(image)
        hsv == [i \in 1..Len(image) |-> BGR2HSV(image[i])]
    IN  [sharpness |-> Var100(Laplacian(gray)),
         brightness_balance |-> BrightnessBalance100(gray),
         contrast |-> Std100(gray),
         saturation |-> Mean100([i \in 1..Len(image) |-> hsv[i][2]])]

(* ---------------------------------------------------------------------- *)
(* generate_explainable_summary                                            *)
(* ---------------------------------------------------------------------- *)

\* one token of a summary string: a clause or the separator
Clause(rule, text, val, name) == [rule |-> rule, text |-> text, val |-> val, name |-> name]

Separator == Clause("sep", " (bullet) ", 0, "")

RECURSIVE Join(_)
\* separator.join(explanations)
Join(explanations) ==
    IF Len(explanations) <= 1 THEN explanations
    ELSE <<Head(explanations), Separator>> \o Join(Tail(explanations))

\* lines 48, 52-56
SharpnessClause(original, processed) ==
    LET sharpness_change == processed.sharpness - original.sharpness
    IN  IF Abs(sharpness_change) > 50 * 100
        THEN IF sharpness_change > 0
             THEN <<Clause("sharpness", "Enhanced image sharpness for clearer details", 0, "")>>
             ELSE <<Clause("sharpness", "Softened image sharpness for smoother appearance", 0, "")>>
        ELSE <<>>

\* lines 49, 58-62
ContrastClause(original, processed) ==
    LET contrast_change == processed.contrast - original.contrast
    IN  IF Abs(contrast_change) > 10 * 100
        THEN IF contrast_change > 0
             THEN <<Clause("contrast", "Increased contrast to make features more distinct", 0, "")>>
             ELSE <<Clause("contrast", "Reduced contrast for a more balanced look", 0, "")>>
        ELSE <<>>

\* lines 50, 64-68
SaturationClause(original, processed) ==
    LET saturation_change == processed.saturation - original.saturation
    IN  IF Abs(saturation_change) > 20 * 100
        THEN IF saturation_change > 0
             THEN <<Clause("saturation", "Boosted color saturation for more vibrant colors", 0, "")>>
             ELSE <<Clause("saturation", "Desaturated colors for a more muted, elegant tone", 0, "")>>
        ELSE <<>>

\* lines 71-76; the value is the one-decimal number of the text, in tenths
BrightnessClause(adjustments) ==
    IF adjustments.brightness # 0
    THEN IF adjustments.brightness > 0
         THEN <<Clause("brightness", "Brightened the image by {:.1f} levels",
                       adjustments.brightness, "")>>
         ELSE <<Clause("brightness", "Darkened the image by {:.1f} levels",
                       Abs(adjustments.brightness), "")>>
    ELSE <<>>

\* lines 78-80
HueClause(adjustments) ==
    IF adjustments.hue # 0
    THEN <<Clause("hue", "Shifted color hue by {:.0f} degrees", adjustments.hue, "")>>
    ELSE <<>>

\* lines 82-87
ExposureClause(adjustments) ==
    IF adjustments.exposure # 0
    THEN IF adjustments.exposure > 0
         THEN <<Clause("exposure", "Increased exposure by {:.1f} stops",
                       10 * adjustments.exposure, "")>>
         ELSE <<Clause("exposure", "Decreased exposure by {:.1f} stops",
                       10 * Abs(adjustments.exposure), "")>>
    ELSE <<>>

\* a slip in the order of the appends: the hue clause before the brightness clause
Explanations_HueFirst(original, processed, adjustments) ==
    SharpnessClause(original, processed) \o ContrastClause(original, processed)
        \o SaturationClause(original, processed) \o HueClause(adjustments)
        \o BrightnessClause(adjustments) \o ExposureClause(adjustments)

\* the list `explanations` on reaching line 89
Explanations(original, processed, adjustments) ==
    SharpnessClause(original, processed) \o ContrastClause(original, processed)
        \o SaturationClause(original, processed) \o BrightnessClause(adjustments)
        \o HueClause(adjustments) \o ExposureClause(adjustments)

\* a slip in the fallback test: only the metric rules are looked at
FallbackClause_MetricsOnly(explanations) ==
    IF \A i \in 1..Len(explanations) : explanations[i].rule \in {"brightness", "hue", "exposure"}
    THEN <<Clause("fallback",
                  "Applied subtle enhancements to improve overall image quality", 0, "")>>
    ELSE <<>>

\* lines 89-90
FallbackClause(explanations) ==
    IF explanations = <<>>
    THEN <<Clause("fallback",
                  "Applied subtle enhancements to improve overall image quality", 0, "")>>
    ELSE <<>>

generate_explainable_summary(original, processed, adjustments) ==
    LET explanations == Explanations(original, processed, adjustments)
    IN  Join(explanations \o FallbackClause(explanations))

\* Python's None for the accessibility_filter argument
None == "None"

\* truth value of `if accessibility_filter:`
Truthy(f) == f # None /\ f # ""

\* filter_names.get(accessibility_filter, accessibility_filter)
FilterName(f) ==
    CASE f = "high_contrast" -> "High Contrast"
      [] f = "colorblind_protanopia" -> "Protanopia Simulation"
      [] f = "colorblind_deuteranopia" -> "Deuteranopia Simulation"
      [] f = "colorblind_tritanopia" -> "Tritanopia Simulation"
      [] OTHER -> f

\* summary += bullet + "Applied ... accessibility filter"
FilterSuffix(f) ==
    <<Separator, Clause("filter", "Applied {} accessibility filter", 0, FilterName(f))>>

ErrorResult == <<Clause("error", "Error: Could not load image", 0, "")>>

(* ---------------------------------------------------------------------- *)
(* Tonal stages of process_image                                           *)
(* ---------------------------------------------------------------------- *)

\* the fixed-point value of 1.0
Unit == 255 * 40

\* what a float32 holds after an overflow to infinity
Inf == Unit * 1000

\* np.clip(x, 0, 1)
Clip(x) == Max(0, Min(Unit, x))

\* img.astype(np.float32) / 255.0
ToFloat(image) ==
    [i \in 1..Len(image) |->
        LET p == image[i]
        IN  <<p[1] * (Unit \div 255), p[2] * (Unit \div 255), p[3] * (Unit \div 255)>>]

\* a slip in the scale: 256 levels instead of 255
ToUint8_Scale256(image) ==
    [i \in 1..Len(image) |->
        LET p == image[i]
        IN  <<((p[1] * 256) \div Unit) % 256, ((p[2] * 256) \div Unit) % 256,
              ((p[3] * 256) \div Unit) % 256>>]

\* (img_float * 255).astype(np.uint8)
ToUint8(image) ==
    [i \in 1..Len(image) |->
        LET p == image[i]
        IN  <<((p[1] * 255) \div Unit) % 256, ((p[2] * 255) \div Unit) % 256,
              ((p[3] * 255) \div Unit) % 256>>]

\* np.clip(img_float + brightness, 0, 1)
AddBrightness(image, b) ==
    [i \in 1..Len(image) |->
        LET p == image[i]
            d == b * (Unit \div 10)
        IN  <<Clip(p[1] + d), Clip(p[2] + d), Clip(p[3] + d)>>]

\* np.clip(img_float * contrast, 0, 1)
MulContrast(image, c) ==
    [i \in 1..Len(image) |->
        LET p == image[i]
        IN  <<Clip((p[1] * c) \div 10), Clip((p[2] * c) \div 10), Clip((p[3] * c) \div 10)>>]

\* 2 ** exposure raises OverflowError when the float result is out of range
ExposureOverflows(e) == e >= 1024

\* x * (2 ** exposure)
Scale2(x, e) == IF e >= 0 THEN x * 2^e ELSE x \div 2^(-e)

\* np.clip(img_float * (2 ** exposure), 0, 1)
MulExposure(image, e) ==
    [i \in 1..Len(image) |->
        LET p == image[i]
        IN  <<Clip(Scale2(p[1], e)), Clip(Scale2(p[2], e)), Clip(Scale2(p[3], e))>>]

\* the guard against a non-positive contrast left out
GammaOf_Unguarded(c) == <<10, c>>

\* gamma = 1.0 / contrast if contrast > 0 else 1.0, as <<numerator, denominator>>
GammaOf(c) == IF c > 0 THEN <<10, c>> ELSE <<1, 1>>

FixMul(a, b) == (a * b) \div Unit

RECURSIVE FixPow(_, _)
FixPow(x, n) == IF n = 0 THEN Unit ELSE FixMul(x, FixPow(x, n - 1))

RECURSIVE RootSearch(_, _, _, _)
\* least r in lo..hi with r^d >= x
RootSearch(lo, hi, x, d) ==
    IF lo >= hi THEN lo
    ELSE LET mid == (lo + hi) \div 2
         IN  IF FixPow(mid, d) >= x THEN RootSearch(lo, mid, x, d)
                                    ELSE RootSearch(mid + 1, hi, x, d)

\* np.power(x, g[1] / g[2]) for x in [0, 1]
Power(x, g) ==
    LET k == Gcd(g[1], Abs(g[2]))
        n == g[1] \div k
        d == Abs(g[2]) \div k
        pos == FixPow(RootSearch(0, Unit, x, d), n)
    IN  IF g[2] > 0 THEN pos
        ELSE IF pos = 0 THEN Inf
        ELSE (Unit * Unit) \div pos

\* np.power(img_float, gamma)
PowGamma(image, g) ==
    [i \in 1..Len(image) |->
        LET p == image[i]
        IN  <<Power(p[1], g), Power(p[2], g), Power(p[3], g)>>]

\* a slip in the dark rule: brightness raised to at least 0.2, as the
\* contrast and saturation rules do, instead of by 0.2
AutoEnhance_MaxBrightness(image, metrics, b, c, s) ==
    LET mean_brightness == Mean100(GrayImage(image))
        dark == mean_brightness < 80 * 100
        bright == ~dark /\ mean_brightness > 180 * 100
        flat == metrics.contrast < 30 * 100
        muted == metrics.saturation < 100 * 100
    IN  [brightness |-> IF dark THEN Max(b, 2) ELSE IF bright THEN b - 2 ELSE b,
         contrast |-> IF flat THEN Max(c, 12) ELSE c,
         saturation |-> IF muted THEN Max(s, 11) ELSE s,
         fired |-> (IF dark THEN {"too_dark"} ELSE {})
                   \cup (IF bright THEN {"too_bright"} ELSE {})
                   \cup (IF flat THEN {"low_contrast"} ELSE {})
                   \cup (IF muted THEN {"muted"} ELSE {})]

\* lines 150-165: the values of brightness, contrast, saturation after the
\* auto-enhance block, and the rules that fired
AutoEnhance(image, metrics, b, c, s) ==
    LET mean_brightness == Mean100(GrayImage(image))
        dark == mean_brightness < 80 * 100
        bright == ~dark /\ mean_brightness > 180 * 100
        flat == metrics.contrast < 30 * 100
        muted == metrics.saturation < 100 * 100
    IN  [brightness |-> IF dark THEN b + 2 ELSE IF bright THEN b - 2 ELSE b,
         contrast |-> IF flat THEN Max(c, 12) ELSE c,
         saturation |-> IF muted THEN Max(s, 11) ELSE s,
         fired |-> (IF dark THEN {"too_dark"} ELSE {})
                   \cup (IF bright THEN {"too_bright"} ELSE {})
                   \cup (IF flat THEN {"low_contrast"} ELSE {})
                   \cup (IF muted THEN {"muted"} ELSE {})]

\* a slip in the wrap: the full circle taken as 360
ShiftHue_Mod360(h, hue) == (h + hue) % 360

\* hsv[:, :, 0] = (hsv[:, :, 0] + hue) % 180
ShiftHue(h, hue) == (h + hue) % 180

\* lines 190-200 on one pixel
SaturationHuePixel(p, s, hue) ==
    LET hsv == BGR2HSV(p)
        s1 == Max(0, Min(255, (hsv[2] * s) \div 10))
        h1 == IF hue # 0 THEN ShiftHue(hsv[1], hue) ELSE hsv[1]
    IN  HSV2BGR(<<h1 % 256, s1, hsv[3]>>)

\* lines 188-200
SaturationHue(image, s, hue) ==
    IF s # 10 \/ hue # 0
    THEN [i \in 1..Len(image) |-> SaturationHuePixel(image[i], s, hue)]
    ELSE image

(* ---------------------------------------------------------------------- *)
(* apply_accessibility_filters                                             *)
(* ---------------------------------------------------------------------- *)

Black == <<0, 0, 0>>

White == <<255, 255, 255>>

Indigo == <<200, 20, 10>>

Palette == {Black, White, Indigo}

ImagesOfLen(n) == [1..n -> Palette]

Images == UNION {ImagesOfLen(n) : n \in 1..MaxPixels}

\* img_float[:, :, dst] = img_float[:, :, src] * 0.5 between the conversion
\* to float32 and back; channels are numbered 0, 1, 2 in the code
HalveInto(image, dst, src) ==
    LET f == ToFloat(image)
        g == [i \in 1..Len(f) |->
                [f[i] EXCEPT ![dst + 1] = (f[i][src + 1] * 5) \div 10]]
    IN  ToUint8(g)

\* deuteranopia reading the blue channel (index 0) instead of the red one
apply_accessibility_filters_DeutBlue(image, filter_type) ==
    CASE filter_type = "high_contrast" -> ImagesOfLen(Len(image))
      [] filter_type = "colorblind_protanopia" -> {HalveInto(image, 2, 1)}
      [] filter_type = "colorblind_deuteranopia" -> {HalveInto(image, 1, 0)}
      [] filter_type = "colorblind_tritanopia" -> {HalveInto(image, 0, 1)}
      [] OTHER -> {image}

\* the last branch written as else instead of elif: every string that is
\* not one of the first three kinds gets the tritanopia transform
apply_accessibility_filters_ElseBranch(image, filter_type) ==
    CASE filter_type = "high_contrast" -> ImagesOfLen(Len(image))
      [] filter_type = "colorblind_protanopia" -> {HalveInto(image, 2, 1)}
      [] filter_type = "colorblind_deuteranopia" -> {HalveInto(image, 1, 2)}
      [] OTHER -> {HalveInto(image, 0, 1)}

\* the images apply_accessibility_filters can return.  The CLAHE result of
\* high_contrast is a library computation that is not reproduced: any
\* image of the same shape is allowed.
apply_accessibility_filters(image, filter_type) ==
    CASE filter_type = "high_contrast" -> ImagesOfLen(Len(image))
      [] filter_type = "colorblind_protanopia" -> {HalveInto(image, 2, 1)}
      [] filter_type = "colorblind_deuteranopia" -> {HalveInto(image, 1, 2)}
      [] filter_type = "colorblind_tritanopia" -> {HalveInto(image, 0, 1)}
      [] OTHER -> {image}

(* ---------------------------------------------------------------------- *)
(* State                                                                   *)
(* ---------------------------------------------------------------------- *)

VARIABLES
    input_file,         \* the upload at input_path: decodable or not, and its pixels
    args,               \* the arguments of the call as the endpoint passes them
    pc,                 \* the line process_image has reached
    img,                \* cv2.imread result (<<>> is None)
    img_float,          \* the float32 working copy
    brightness,         \* the local brightness (auto-enhance may reassign it)
    contrast,           \* the local contrast
    saturation,         \* the local saturation
    auto_fired,         \* the auto-enhance rules whose branch was taken
    gamma,              \* the exponent of the gamma stage, <<0, 0>> before it runs
    img_processed,      \* the 8-bit result
    original_metrics,
    processed_metrics,
    output_file,        \* what cv2.imwrite stored at output_path (<<>>: nothing)
    summary,            \* the summary string under construction
    result,             \* the value process_image returned (<<>>: not returned)
    response,           \* the JSON body of POST /process
    stages              \* the stages whose body has run, in order

vars == <<input_file, args, pc, img, img_float, brightness, contrast, saturation,
          auto_fired, gamma, img_processed, original_metrics, processed_metrics,
          output_file, summary, result, response, stages>>

BrightnessValues == {-2, 0, 20}

ContrastValues == {-10, 0, 10, 20}

SaturationValues == {10, 20}

HueValues == {-30, 0, 180}

ExposureValues == {-1, 0, 1, 1024}

FilterValues == {None, "none", "high_contrast", "colorblind_protanopia",
                 "colorblind_deuteranopia", "colorblind_tritanopia", "sepia"}

\* the defaults of process_image's signature
DefaultArgs ==
    [brightness |-> 0, contrast |-> 10, saturation |-> 10, hue |-> 0, exposure |-> 0,
     accessibility_filter |-> None, auto_enhance |-> FALSE]

AllArgs ==
    [brightness : BrightnessValues, contrast : ContrastValues,
     saturation : SaturationValues, hue : HueValues, exposure : ExposureValues,
     accessibility_filter : FilterValues, auto_enhance : BOOLEAN]

Changed(a) == Cardinality({k \in DOMAIN a : a[k] # DefaultArgs[k]})

Files ==
    {[valid |-> FALSE, pixels |-> <<>>]}
        \cup {[valid |-> TRUE, pixels |-> im] : im \in Images}

NoResponse == [processed_url |-> FALSE, summary |-> <<>>]

NoGamma == <<0, 0>>

\* process_image_endpoint has stored the upload and calls process_image
Init ==
    /\ input_file \in Files
    /\ args \in {a \in AllArgs : Changed(a) <= MaxChanged}
    /\ pc = "imread"
    /\ img = <<>>
    /\ img_float = <<>>
    /\ brightness = args.brightness
    /\ contrast = args.contrast
    /\ saturation = args.saturation
    /\ auto_fired = {}
    /\ gamma = NoGamma
    /\ img_processed = <<>>
    /\ original_metrics = NoMetrics
    /\ processed_metrics = NoMetrics
    /\ output_file = <<>>
    /\ summary = <<>>
    /\ result = <<>>
    /\ response = NoResponse
    /\ stages = <<>>

(* ---------------------------------------------------------------------- *)
(* process_image, one action per stage                                     *)
(* ---------------------------------------------------------------------- *)

\* cv2.imread(input_path, cv2.IMREAD_COLOR)
Imread(file) == IF file.valid THEN file.pixels ELSE <<>>

\* the test for None left out: the call goes on with no image
LoadImage_NoCheck ==
    /\ pc = "imread"
    /\ img' = Imread(input_file)
    /\ pc' = "original_metrics"
    /\ UNCHANGED <<input_file, args, img_float, brightness, contrast, saturation,
                   auto_fired, gamma, img_processed, original_metrics,
                   processed_metrics, output_file, summary, result, response, stages>>

\* lines 139-141
LoadImage ==
    /\ pc = "imread"
    /\ img' = Imread(input_file)
    /\ IF img' = <<>>
       THEN /\ result' = ErrorResult
            /\ pc' = "returned"
       ELSE /\ result' = result
            /\ pc' = "original_metrics"
    /\ UNCHANGED <<input_file, args, img_float, brightness, contrast, saturation,
                   auto_fired, gamma, img_processed, original_metrics,
                   processed_metrics, output_file, summary, response, stages>>

\* line 144
OriginalMetrics ==
    /\ pc = "original_metrics"
    /\ original_metrics' = calculate_perceptual_metrics(img)
    /\ stages' = Append(stages, "original_metrics")
    /\ pc' = "to_float"
    /\ UNCHANGED <<input_file, args, img, img_float, brightness, contrast, saturation,
                   auto_fired, gamma, img_processed, processed_metrics, output_file,
                   summary, result, response>>

\* line 147
Normalize ==
    /\ pc = "to_float"
    /\ img_float' = ToFloat(img)
    /\ stages' = Append(stages, "normalize")
    /\ pc' = "auto_enhance"
    /\ UNCHANGED <<input_file, args, img, brightness, contrast, saturation, auto_fired,
                   gamma, img_processed, original_metrics, processed_metrics,
                   output_file, summary, result, response>>

\* lines 150-165
AutoEnhanceStage ==
    /\ pc = "auto_enhance"
    /\ IF args.auto_enhance
       THEN LET e == AutoEnhance(img, original_metrics, brightness, contrast, saturation)
            IN  /\ brightness' = e.brightness
                /\ contrast' = e.contrast
                /\ saturation' = e.saturation
                /\ auto_fired' = e.fired
                /\ stages' = Append(stages, "auto_enhance")
       ELSE UNCHANGED <<brightness, contrast, saturation, auto_fired, stages>>
    /\ pc' = "brightness"
    /\ UNCHANGED <<input_file, args, img, img_float, gamma, img_processed,
                   original_metrics, processed_metrics, output_file, summary, result,
                   response>>

\* lines 168-169
BrightnessStage ==
    /\ pc = "brightness"
    /\ IF brightness # 0
       THEN /\ img_float' = AddBrightness(img_float, brightness)
            /\ stages' = Append(stages, "brightness")
       ELSE UNCHANGED <<img_float, stages>>
    /\ pc' = "contrast"
    /\ UNCHANGED <<input_file, args, img, brightness, contrast, saturation, auto_fired,
                   gamma, img_processed, original_metrics, processed_metrics,
                   output_file, summary, result, response>>

\* lines 172-173
ContrastStage ==
    /\ pc = "contrast"
    /\ IF contrast # 10
       THEN /\ img_float' = MulContrast(img_float, contrast)
            /\ stages' = Append(stages, "contrast")
       ELSE UNCHANGED <<img_float, stages>>
    /\ pc' = "exposure"
    /\ UNCHANGED <<input_file, args, img, brightness, contrast, saturation, auto_fired,
                   gamma, img_processed, original_metrics, processed_metrics,
                   output_file, summary, result, response>>

\* lines 176-177; the OverflowError of 2 ** exposure leaves process_image
ExposureStage ==
    /\ pc = "exposure"
    /\ IF args.exposure # 0
       THEN IF ExposureOverflows(args.exposure)
            THEN /\ pc' = "raised"
                 /\ UNCHANGED <<img_float, stages>>
            ELSE /\ img_float' = MulExposure(img_float, args.exposure)
                 /\ stages' = Append(stages, "exposure")
                 /\ pc' = "gamma"
       ELSE /\ pc' = "gamma"
            /\ UNCHANGED <<img_float, stages>>
    /\ UNCHANGED <<input_file, args, img, brightness, contrast, saturation, auto_fired,
                   gamma, img_processed, original_metrics, processed_metrics,
                   output_file, summary, result, response>>

\* the gamma stage given a condition of its own (contrast above 1.0)
\* instead of the one of the contrast stage
GammaStage_OwnFlag ==
    /\ pc = "gamma"
    /\ IF contrast > 10
       THEN /\ gamma' = GammaOf(contrast)
            /\ img_float' = PowGamma(img_float, gamma')
            /\ stages' = Append(stages, "gamma")
       ELSE UNCHANGED <<gamma, img_float, stages>>
    /\ pc' = "to_uint8"
    /\ UNCHANGED <<input_file, args, img, brightness, contrast, saturation, auto_fired,
                   img_processed, original_metrics, processed_metrics, output_file,
                   summary, result, response>>

\* lines 180-182
GammaStage ==
    /\ pc = "gamma"
    /\ IF contrast # 10
       THEN /\ gamma' = GammaOf(contrast)
            /\ img_float' = PowGamma(img_float, gamma')
            /\ stages' = Append(stages, "gamma")
       ELSE UNCHANGED <<gamma, img_float, stages>>
    /\ pc' = "to_uint8"
    /\ UNCHANGED <<input_file, args, img, brightness, contrast, saturation, auto_fired,
                   img_processed, original_metrics, processed_metrics, output_file,
                   summary, result, response>>

\* line 185
Denormalize ==
    /\ pc = "to_uint8"
    /\ img_processed' = ToUint8(img_float)
    /\ stages' = Append(stages, "denormalize")
    /\ pc' = "saturation_hue"
    /\ UNCHANGED <<input_file, args, img, img_float, brightness, contrast, saturation,
                   auto_fired, gamma, original_metrics, processed_metrics, output_file,
                   summary, result, response>>

\* lines 188-200
SaturationHueStage ==
    /\ pc = "saturation_hue"
    /\ img_processed' = SaturationHue(img_processed, saturation, args.hue)
    /\ stages' = IF saturation # 10 \/ args.hue # 0
                 THEN Append(stages, "saturation_hue") ELSE stages
    /\ pc' = "filter"
    /\ UNCHANGED <<input_file, args, img, img_float, brightness, contrast, saturation,
                   auto_fired, gamma, original_metrics, processed_metrics, output_file,
                   summary, result, response>>

\* lines 203-204
FilterStage ==
    /\ pc = "filter"
    /\ IF Truthy(args.accessibility_filter)
       THEN /\ img_processed' \in
                   apply_accessibility_filters(img_processed, args.accessibility_filter)
            /\ stages' = Append(stages, "filter")
       ELSE UNCHANGED <<img_processed, stages>>
    /\ pc' = "processed_metrics"
    /\ UNCHANGED <<input_file, args, img, img_float, brightness, contrast, saturation,
                   auto_fired, gamma, original_metrics, processed_metrics, output_file,
                   summary, result, response>>

\* line 207
ProcessedMetrics ==
    /\ pc = "processed_metrics"
    /\ processed_metrics' = calculate_perceptual_metrics(img_processed)
    /\ stages' = Append(stages, "processed_metrics")
    /\ pc' = "imwrite"
    /\ UNCHANGED <<input_file, args, img, img_float, brightness, contrast, saturation,
                   auto_fired, gamma, img_processed, original_metrics, output_file,
                   summary, result, response>>

\* line 210
SaveImage ==
    /\ pc = "imwrite"
    /\ output_file' = img_processed
    /\ stages' = Append(stages, "imwrite")
    /\ pc' = "summary"
    /\ UNCHANGED <<input_file, args, img, img_float, brightness, contrast, saturation,
                   auto_fired, gamma, img_processed, original_metrics,
                   processed_metrics, summary, result, response>>

\* lines 213-219
Adjustments ==
    [brightness |-> brightness, contrast |-> contrast, saturation |-> saturation,
     hue |-> args.hue, exposure |-> args.exposure]

\* lines 213-221
GenerateSummary ==
    /\ pc = "summary"
    /\ summary' = generate_explainable_summary(original_metrics, processed_metrics,
                                               Adjustments)
    /\ stages' = Append(stages, "summary")
    /\ pc' = "filter_info"
    /\ UNCHANGED <<input_file, args, img, img_float, brightness, contrast, saturation,
                   auto_fired, gamma, img_processed, original_metrics,
                   processed_metrics, output_file, result, response>>

\* lines 224-233
AppendFilterInfo ==
    /\ pc = "filter_info"
    /\ summary' = IF Truthy(args.accessibility_filter)
                  THEN summary \o FilterSuffix(args.accessibility_filter)
                  ELSE summary
    /\ result' = summary'
    /\ pc' = "returned"
    /\ UNCHANGED <<input_file, args, img, img_float, brightness, contrast, saturation,
                   auto_fired, gamma, img_processed, original_metrics,
                   processed_metrics, output_file, response, stages>>

\* main.py lines 66-70: the endpoint answers with the same body whatever
\* process_image returned
Respond ==
    /\ pc = "returned"
    /\ response' = [processed_url |-> TRUE, summary |-> result]
    /\ pc' = "responded"
    /\ UNCHANGED <<input_file, args, img, img_float, brightness, contrast, saturation,
                   auto_fired, gamma, img_processed, original_metrics,
                   processed_metrics, output_file, summary, result, stages>>

Next ==
    \/ LoadImage
    \/ OriginalMetrics
    \/ Normalize
    \/ AutoEnhanceStage
    \/ BrightnessStage
    \/ ContrastStage
    \/ ExposureStage
    \/ GammaStage
    \/ Denormalize
    \/ SaturationHueStage
    \/ FilterStage
    \/ ProcessedMetrics
    \/ SaveImage
    \/ GenerateSummary
    \/ AppendFilterInfo
    \/ Respond

Spec == Init /\ [][Next]_vars

(* ---------------------------------------------------------------------- *)
(* generate_explainable_summary and the filter suffix on their own: the    *)
(* state of process_image on reaching line 213, with the metrics and the   *)
(* adjustments drawn from bounded sets                                     *)
(* ---------------------------------------------------------------------- *)

OriginalSamples ==
    [sharpness : {0, 20000}, brightness_balance : {0}, contrast : {0, 5000},
     saturation : {0, 10000}]

ProcessedSamples ==
    [sharpness : {5000, 5001, 25001}, brightness_balance : {0}, contrast : {1000, 4000, 6001},
     saturation : {2000, 7999, 12001}]

InitSummary ==
    /\ input_file = [valid |-> TRUE, pixels |-> <<Black>>]
    /\ args \in {a \in AllArgs : /\ ~ExposureOverflows(a.exposure)
                                 /\ a.contrast = 10
                                 /\ a.saturation = 10
                                 /\ ~a.auto_enhance}
    /\ pc = "summary"
    /\ img = input_file.pixels
    /\ img_float = ToFloat(img)
    /\ brightness = args.brightness
    /\ contrast = args.contrast
    /\ saturation = args.saturation
    /\ auto_fired = {}
    /\ gamma = NoGamma
    /\ img_processed = img
    /\ original_metrics \in OriginalSamples
    /\ processed_metrics \in ProcessedSamples
    /\ output_file = img_processed
    /\ summary = <<>>
    /\ result = <<>>
    /\ response = NoResponse
    /\ stages = <<>>

NextSummary ==
    \/ GenerateSummary
    \/ AppendFilterInfo

SpecSummary == InitSummary /\ [][NextSummary]_vars

(* ---------------------------------------------------------------------- *)
(* Properties                                                              *)
(* ---------------------------------------------------------------------- *)

\* the clauses of a summary string, separators dropped
Clauses(s) == SelectSeq(s, LAMBDA t : t.rule # "sep")

HasClause(s, rule) == \E i \in 1..Len(s) : s[i].rule = rule

CountClause(s, rule) == Cardinality({i \in 1..Len(s) : s[i].rule = rule})

RuleRank(rule) ==
    CASE rule = "sharpness" -> 1
      [] rule = "contrast" -> 2
      [] rule = "saturation" -> 3
      [] rule = "brightness" -> 4
      [] rule = "hue" -> 5
      [] rule = "exposure" -> 6
      [] rule = "fallback" -> 7
      [] rule = "filter" -> 8
      [] OTHER -> 0

\* process_image has returned a summary
Returned == pc \in {"returned", "responded"} /\ img # <<>>

\* the summary has been generated
Summarised == pc = "filter_info" \/ Returned

\* the image the filter stage receives
TonalOutput == SaturationHue(ToUint8(img_float), saturation, args.hue)

KnownFilters ==
    {"high_contrast", "colorblind_protanopia", "colorblind_deuteranopia",
     "colorblind_tritanopia"}

\* C1: the clauses of the summary, filter suffix included, appear in the
\* fixed order sharpness, contrast, saturation, brightness, hue, exposure,
\* fallback, filter; each rule gives at most one clause; the filter clause,
\* when present, is the last one; clauses and separators alternate.
C1_ClauseOrder ==
    LET c == Clauses(summary)
    IN  /\ \A i \in 1..Len(c) : RuleRank(c[i].rule) \in 1..8
        /\ \A i, j \in 1..Len(c) : i < j => RuleRank(c[i].rule) < RuleRank(c[j].rule)
        /\ \A i \in 1..Len(c) : c[i].rule = "filter" => i = Len(c)
        /\ \A i \in 1..Len(summary) : (summary[i].rule = "sep") <=> (i % 2 = 0)
        /\ summary # <<>> => Len(summary) % 2 = 1
        /\ (Returned /\ Truthy(args.accessibility_filter))
               => (c # <<>> /\ c[Len(c)].rule = "filter")

C1_Witness ==
    /\ pc = "returned"
    /\ HasClause(summary, "sharpness")
    /\ HasClause(summary, "saturation")
    /\ HasClause(summary, "brightness")
    /\ HasClause(summary, "hue")
    /\ HasClause(summary, "exposure")
    /\ HasClause(summary, "filter")

\* one of rules 1-6 fires on the inputs of generate_explainable_summary
RuleFires ==
    \/ Abs(processed_metrics.sharpness - original_metrics.sharpness) > 5000
    \/ Abs(processed_metrics.contrast - original_metrics.contrast) > 1000
    \/ Abs(processed_metrics.saturation - original_metrics.saturation) > 2000
    \/ brightness # 0
    \/ args.hue # 0
    \/ args.exposure # 0

\* C2: the fallback clause is in the summary exactly when none of rules 1-6
\* fired, at most once, and the summary generate_explainable_summary returns
\* is never empty.
C2_FallbackIff ==
    Summarised =>
        /\ HasClause(summary, "fallback") <=> ~RuleFires
        /\ CountClause(summary, "fallback") <= 1
        /\ summary # <<>>
        /\ ~HasClause(summary, "fallback") =>
               \E i \in 1..Len(summary) : RuleRank(summary[i].rule) \in 1..6

C2_Witness ==
    /\ pc = "filter_info"
    /\ ~RuleFires
    /\ Abs(processed_metrics.sharpness - original_metrics.sharpness) = 5000
    /\ summary = <<Clause("fallback",
                          "Applied subtle enhancements to improve overall image quality",
                          0, "")>>

\* C3: with every argument at its default, the output image (in memory and
\* as written) equals the input image and the summary is the fallback
\* clause alone.
C3_IdentityNoOp ==
    (Returned /\ args = DefaultArgs) =>
        /\ img_processed = input_file.pixels
        /\ output_file = input_file.pixels
        /\ result = <<Clause("fallback",
                             "Applied subtle enhancements to improve overall image quality",
                             0, "")>>

C3_Witness ==
    /\ Returned
    /\ args = DefaultArgs
    /\ \E i \in 1..Len(img) : img[i] = Indigo
    /\ \E i \in 1..Len(img) : img[i] = White

\* C4 as claimed: with hue = 180 the image after the saturation/hue stage
\* and the returned summary are those of hue = 0 (which has no hue clause).
C4_HueWrapSameResult ==
    /\ (pc = "filter" /\ args.hue = 180)
           => img_processed = SaturationHue(ToUint8(img_float), saturation, 0)
    /\ (Returned /\ args.hue = 180) => ~HasClause(result, "hue")

\* C4 as amended: with hue = 180 and an effective saturation other than
\* 1.0 (so that the stage runs for hue = 0 as well) the image after the
\* saturation/hue stage is the one hue = 0 gives; the summary does carry
\* one hue clause, "Shifted color hue by 180 degrees".
C4_HueWrapStage ==
    /\ (pc = "filter" /\ args.hue = 180 /\ saturation # 10)
           => img_processed = SaturationHue(ToUint8(img_float), saturation, 0)
    /\ (Returned /\ args.hue = 180)
           => /\ CountClause(result, "hue") = 1
              /\ \A i \in 1..Len(result) : result[i].rule = "hue" => result[i].val = 180

C4_Witness ==
    /\ pc = "filter"
    /\ args.hue = 180
    /\ saturation = 20
    /\ \E i \in 1..Len(img_float) : BGR2HSV(ToUint8(img_float)[i])[1] > 0

AfterAutoEnhance ==
    img # <<>> /\ pc \notin {"imread", "original_metrics", "to_float", "auto_enhance"}

\* np.mean(gray) < 80 on the original image
OriginalIsDark == SumSeq(GrayImage(img)) < 80 * Len(img)

\* C6: with auto_enhance on a dark original (mean gray < 80) the effective
\* brightness is the requested one plus 0.2, in the brightness stage and in
\* the summary; the +0.2 and -0.2 rules never both fire; without
\* auto_enhance the effective brightness is the requested one.
C6_AutoBrightness ==
    /\ (AfterAutoEnhance /\ args.auto_enhance /\ OriginalIsDark)
           => brightness = args.brightness + 2
    /\ (AfterAutoEnhance /\ ~args.auto_enhance) => brightness = args.brightness
    /\ ~({"too_dark", "too_bright"} \subseteq auto_fired)
    /\ (pc = "contrast" /\ args.auto_enhance /\ OriginalIsDark)
           => \A i \in 1..Len(img) : \A k \in 1..3 :
                  img_float[i][k] =
                      Max(0, Min(Unit, img[i][k] * (Unit \div 255)
                                           + (args.brightness + 2) * (Unit \div 10)))
    /\ (Returned /\ args.auto_enhance /\ OriginalIsDark)
           => IF args.brightness + 2 = 0
              THEN ~HasClause(result, "brightness")
              ELSE \E i \in 1..Len(result) :
                       /\ result[i].rule = "brightness"
                       /\ result[i].val = Abs(args.brightness + 2)

C6_Witness ==
    /\ Returned
    /\ args.auto_enhance
    /\ OriginalIsDark
    /\ args.brightness = 20
    /\ "too_dark" \in auto_fired

\* C7 as claimed: deuteranopia sets green to half of the blue channel and
\* leaves red and blue as they were.
C7_DeuteranopiaGreenFromBlue ==
    (pc = "processed_metrics" /\ args.accessibility_filter = "colorblind_deuteranopia")
        => LET pre == TonalOutput
            IN  \A i \in 1..Len(img_processed) :
                    img_processed[i] = <<pre[i][1], pre[i][1] \div 2, pre[i][3]>>

\* C7 as amended: deuteranopia sets green to half of the red channel
\* (truncated to an integer) and leaves red and blue as they were.
C7_DeuteranopiaGreenFromRed ==
    (pc = "processed_metrics" /\ args.accessibility_filter = "colorblind_deuteranopia")
        => LET pre == TonalOutput
            IN  \A i \in 1..Len(img_processed) :
                    img_processed[i] = <<pre[i][1], pre[i][3] \div 2, pre[i][3]>>

C7_Witness ==
    /\ pc = "processed_metrics"
    /\ args.accessibility_filter = "colorblind_deuteranopia"
    /\ LET pre == TonalOutput
       IN  \E i \in 1..Len(img_processed) :
               /\ pre[i][1] \div 2 # pre[i][3] \div 2
               /\ pre[i][2] # pre[i][3] \div 2

\* C8: with no filter, or a filter string that names none of the four
\* kinds, the image after the filter stage is the image before it, it is
\* what is written, and the call returns a summary, not an error.
C8_UnknownFilterIdentity ==
    (AfterAutoEnhance /\ args.accessibility_filter \notin KnownFilters) =>
        /\ pc \in {"processed_metrics", "imwrite", "summary", "filter_info"}
               => img_processed = TonalOutput
        /\ Returned => /\ img_processed = TonalOutput
                       /\ output_file = TonalOutput
                       /\ result # ErrorResult

C8_Witness ==
    /\ pc = "processed_metrics"
    /\ args.accessibility_filter = "sepia"
    /\ stages[Len(stages)] = "filter"
    /\ \E i \in 1..Len(img_processed) : img_processed[i] = Indigo

\* C9: when the input does not decode, process_image returns the error
\* text at once: no metrics, no float or 8-bit image, no stage, no output
\* file; and a successful call never returns the error text.
C9_DecodeFailure ==
    /\ ~input_file.valid =>
           /\ pc \in {"imread", "returned", "responded"}
           /\ original_metrics = NoMetrics
           /\ processed_metrics = NoMetrics
           /\ img_float = <<>>
           /\ img_processed = <<>>
           /\ output_file = <<>>
           /\ stages = <<>>
           /\ pc # "imread" => (Len(result) = 1 /\ result[1].rule = "error")
    /\ (input_file.valid /\ pc \in {"returned", "responded"})
           => (result # <<>> /\ \A i \in 1..Len(result) : result[i].rule # "error")
    /\ pc = "responded" => response.summary = result

C9_Witness ==
    /\ ~input_file.valid
    /\ pc = "responded"
    /\ response.summary = ErrorResult

StageRank(stage) ==
    CASE stage = "original_metrics" -> 1
      [] stage = "normalize" -> 2
      [] stage = "auto_enhance" -> 3
      [] stage = "brightness" -> 4
      [] stage = "contrast" -> 5
      [] stage = "exposure" -> 6
      [] stage = "gamma" -> 7
      [] stage = "denormalize" -> 8
      [] stage = "saturation_hue" -> 9
      [] stage = "filter" -> 10
      [] stage = "processed_metrics" -> 11
      [] stage = "imwrite" -> 12
      [] stage = "summary" -> 13
      [] OTHER -> 0

Ran(stage) == \E i \in 1..Len(stages) : stages[i] = stage

\* the float image the stages give when applied in the claimed order
ExpectedFloat ==
    LET f0 == ToFloat(img)
        f1 == IF brightness # 0 THEN AddBrightness(f0, brightness) ELSE f0
        f2 == IF contrast # 10 THEN MulContrast(f1, contrast) ELSE f1
        f3 == IF args.exposure # 0 THEN MulExposure(f2, args.exposure) ELSE f2
        f4 == IF contrast # 10
              THEN PowGamma(f3, IF contrast > 0 THEN <<10, contrast>> ELSE <<1, 1>>)
              ELSE f3
    IN  f4

\* C10: the stages run in the order original metrics, auto-enhance,
\* brightness, contrast, exposure, gamma, denormalize, saturation/hue,
\* filter, processed metrics, summary, each at most once; on return gamma
\* has run exactly when contrast # 1.0 (with exponent 1/contrast, or 1.0
\* for a contrast <= 0), saturation/hue exactly when saturation # 1.0 or
\* hue # 0, the filter exactly when one was given; each stage worked on the
\* output of the one before, and the processed metrics are those of the
\* image the filter stage left.
C10_StageOrder ==
    /\ \A i \in 1..Len(stages) : StageRank(stages[i]) > 0
    /\ \A i, j \in 1..Len(stages) : i < j => StageRank(stages[i]) < StageRank(stages[j])
    /\ (Ran("processed_metrics") /\ Truthy(args.accessibility_filter)) => Ran("filter")
    /\ Returned =>
           /\ Ran("original_metrics") /\ Ran("denormalize")
           /\ Ran("processed_metrics") /\ Ran("summary")
           /\ Ran("auto_enhance") <=> args.auto_enhance
           /\ Ran("gamma") <=> contrast # 10
           /\ Ran("gamma") => gamma = (IF contrast > 0 THEN <<10, contrast>> ELSE <<1, 1>>)
           /\ ~Ran("gamma") => gamma = NoGamma
           /\ Ran("saturation_hue") <=> (saturation # 10 \/ args.hue # 0)
           /\ Ran("filter") <=> Truthy(args.accessibility_filter)
           /\ img_float = ExpectedFloat
           /\ img_processed \in
                  (IF Truthy(args.accessibility_filter)
                   THEN apply_accessibility_filters(
                            SaturationHue(ToUint8(ExpectedFloat), saturation, args.hue),
                            args.accessibility_filter)
                   ELSE {SaturationHue(ToUint8(ExpectedFloat), saturation, args.hue)})
           /\ processed_metrics = calculate_perceptual_metrics(img_processed)
           /\ original_metrics = calculate_perceptual_metrics(img)

C10_Witness ==
    /\ Returned
    /\ Ran("auto_enhance") /\ Ran("brightness") /\ Ran("contrast") /\ Ran("gamma")
    /\ Ran("saturation_hue") /\ Ran("filter")
    /\ gamma = <<10, 12>>
    /\ args.accessibility_filter = "colorblind_tritanopia"

====
